---- MODULE Spec2Model ----
(***************************************************************************)
(* A model of the AxoDen client (src/axoden_client): the project context   *)
(* detector, the response parser, the client constructor, the recommend    *)
(* call with its fallback, and the `recommend` command of the CLI.         *)
(*                                                                         *)
(* Python values are modelled as follows.                                  *)
(*   None / an absent key      the empty sequence <<>>  (None)             *)
(*   a present value v         the one-element sequence <<v>>  (Some(v))   *)
(*   a dict                    a function from its keys (strings)          *)
(*   a float confidence        a record [kind |-> "num", pct |-> 0..]      *)
(*                             holding the value in percent, or            *)
(*                             [kind |-> "null", ...] for JSON null        *)
(***************************************************************************)
EXTENDS Integers, Sequences, FiniteSets, TLC

VARIABLES
    \* ---- the machine the client runs on (survives an invocation) ----
    environ,        \* os.environ: AXODEN_API_KEY, AXODEN_API_URL, AXODEN_AGENT_ID
    keyring,        \* the OS secret store entry ("axoden", "api_key")
    configFile,     \* ~/.axoden/config.json
    firstGenerated, \* the first identity _generate_agent_id ever returned
    \* ---- one invocation of `axoden recommend` ----
    pc,             \* position of the command
    args,           \* the command's arguments
    client,         \* the AxoDenClient under construction / constructed
    project_context,\* cli.recommend's local project_context
    request_data,   \* client.recommend's local request_data
    response,       \* the primary endpoint's answer
    recommendation, \* what client.recommend returned
    error,          \* the exception that ended the command
    exit_code,      \* the process exit code
    calls,          \* the outbound HTTP calls issued so far, in order
    saved,          \* the recommendation files written by this invocation
    probe_response, \* _ensure_agent_registered's answer from the existence probe
    register_response, \* _register_agent's answer from the registration call
    listdir_calls,  \* how often this invocation called os.listdir
    \* ---- the pure functions, applied to drawn inputs ----
    files,          \* a directory listing
    context,        \* the detector's result for it
    body,           \* a response body
    format,         \* the format selector
    parsed,         \* the parser's result for it
    \* ---- the constructor called from a library, with explicit arguments ----
    explicit_api_key,   \* AxoDenClient(api_key=...)
    explicit_base_url,  \* AxoDenClient(base_url=...)
    \* ---- a structured record parsed and converted back ----
    record,         \* a structured (to_json) record x
    roundtrip,      \* to_json of the recommendation parsed from x
    \* ---- a recommendation rendered as narrative ----
    recommended,    \* a MethodologyRecommendation
    narrative,      \* its format_for_claude_code()
    \* ---- analyze_project ----
    filesystem,     \* the entries of each directory
    project_path,   \* the directory analyze_project is given
    analysis,       \* what analyze_project returned
    \* ---- one client used for several recommend calls ----
    invocations     \* how many times client.recommend was called

envVars  == <<environ, keyring, configFile, firstGenerated>>
cmdVars  == <<pc, args, client, project_context, request_data, response,
              recommendation, error, exit_code, calls, saved,
              probe_response, register_response, listdir_calls>>
regVars  == <<probe_response, register_response>>
detVars  == <<files, context>>
parVars  == <<body, format, parsed>>
anaVars  == <<filesystem, project_path, analysis>>
libVars  == <<explicit_api_key, explicit_base_url, record, roundtrip,
              recommended, narrative, anaVars, invocations>>
vars     == <<envVars, cmdVars, detVars, parVars, libVars, regVars, listdir_calls>>

----------------------------------------------------------------------------
(* Bounds *)

\* how many distinct uuid4 values _generate_agent_id can draw
NumUuids == 2
\* the longest steps / alternatives sequence in a drawn response body
MaxSteps == 2
\* how many instants the clock (datetime.now) can show
NumTimes == 2
\* how many times one client's recommend is called
MaxCalls == 2

----------------------------------------------------------------------------
(* Python helpers *)

None == <<>>
Some(v) == <<v>>

\* Python truthiness of an optional string: None and "" are falsy
Truthy(o) == o # None /\ o[1] # ""

\* dict.get(key, default) on an optional field
Get(o, default) == IF o = None THEN default ELSE o[1]

\* dict.get(key, default) on a dict
DictGet(d, key, default) == IF key \in DOMAIN d THEN d[key] ELSE default

Range(s) == {s[i] : i \in DOMAIN s}

SeqsUpTo(S, n) == UNION {[1..k -> S] : k \in 0..n}

----------------------------------------------------------------------------
(* Project context detector: client.py _detect_project_context *)

\* the marker files of the detection table, and one entry that is no marker
Markers == {"package.json", "next.config.js", "vue.config.js",
            "requirements.txt", "setup.py", "manage.py", "app.py",
            "application.py", "Cargo.toml", "go.mod"}
Entries == Markers \cup {"README.md"}

default_context ==
    [language |-> "unknown", framework |-> "unknown", project_type |-> "general"]

\* a detector that tests go.mod before package.json
detect_project_context_go_first(fs) ==
    IF "go.mod" \in fs
    THEN [default_context EXCEPT !.language = "go"]
    ELSE IF "package.json" \in fs
    THEN [default_context EXCEPT
            !.language = "javascript",
            !.framework = IF "next.config.js" \in fs THEN "nextjs"
                          ELSE IF "vue.config.js" \in fs THEN "vue"
                          ELSE @]
    ELSE IF "requirements.txt" \in fs \/ "setup.py" \in fs
    THEN [default_context EXCEPT
            !.language = "python",
            !.framework = IF "manage.py" \in fs THEN "django"
                          ELSE IF "app.py" \in fs \/ "application.py" \in fs
                               THEN "flask"
                          ELSE @]
    ELSE IF "Cargo.toml" \in fs
    THEN [default_context EXCEPT !.language = "rust"]
    ELSE default_context

detect_project_context(fs) ==
    IF "package.json" \in fs
    THEN [default_context EXCEPT
            !.language = "javascript",
            !.framework = IF "next.config.js" \in fs THEN "nextjs"
                          ELSE IF "vue.config.js" \in fs THEN "vue"
                          ELSE @]
    ELSE IF "requirements.txt" \in fs \/ "setup.py" \in fs
    THEN [default_context EXCEPT
            !.language = "python",
            !.framework = IF "manage.py" \in fs THEN "django"
                          ELSE IF "app.py" \in fs \/ "application.py" \in fs
                               THEN "flask"
                          ELSE @]
    ELSE IF "Cargo.toml" \in fs
    THEN [default_context EXCEPT !.language = "rust"]
    ELSE IF "go.mod" \in fs
    THEN [default_context EXCEPT !.language = "go"]
    ELSE default_context

----------------------------------------------------------------------------
(* Recommendation records and the response parser: models.py, client.py *)

Num(p) == [kind |-> "num", pct |-> p]
Null == [kind |-> "null", pct |-> 0]

\* the confidence defaults of the code, in percent
DEFAULT_CONFIDENCE == 50
FALLBACK_CONFIDENCE == 70

\* JSON values a body may carry under "confidence": null, 0.0, 0.9, 1.5
ConfidenceValues == {Null, Num(0), Num(90), Num(150)}

\* response bodies: every key may be absent
Bodies ==
    [methodology  : {None, Some("X")},
     description  : {None, Some("d")},
     confidence   : {None} \cup {Some(c) : c \in ConfidenceValues},
     steps        : {None} \cup {Some(s) : s \in SeqsUpTo({"a", "b"}, MaxSteps)},
     reasoning    : {None, Some(""), Some("r")},
     alternatives : {None} \cup {Some(s) : s \in SeqsUpTo({"Y"}, MaxSteps)}]

Formats == {"claude", "json"}

\* MethodologyRecommendation.format_for_claude_code raises TypeError on
\* f"{self.confidence:.0%}" when confidence is None
format_for_claude_code_raises(rec) == rec.confidence.kind = "null"

Returned(rec) == [raised |-> FALSE, value |-> Some(rec)]
Raised == [raised |-> TRUE, value |-> None]

\* a parser whose confidence default is 0.0 and that drops the alternatives
parse_recommendation_bad_defaults(response_data, fmt) ==
    LET rec == [methodology_name |-> Get(response_data.methodology, "Unknown"),
                description      |-> Get(response_data.description, ""),
                confidence       |-> Get(response_data.confidence, Num(0)),
                steps            |-> Get(response_data.steps, <<>>),
                reasoning        |-> Get(response_data.reasoning, ""),
                alternatives     |-> <<>>]
    IN  IF fmt = "claude" /\ format_for_claude_code_raises(rec)
        THEN Raised
        ELSE Returned(rec)

parse_recommendation(response_data, fmt) ==
    LET rec == [methodology_name |-> Get(response_data.methodology, "Unknown"),
                description      |-> Get(response_data.description, ""),
                confidence       |-> Get(response_data.confidence,
                                         Num(DEFAULT_CONFIDENCE)),
                steps            |-> Get(response_data.steps, <<>>),
                reasoning        |-> Get(response_data.reasoning, ""),
                alternatives     |-> Get(response_data.alternatives, <<>>)]
    IN  IF fmt = "claude" /\ format_for_claude_code_raises(rec)
        THEN Raised
        ELSE Returned(rec)

\* the spec's "recognizable methodology payload": a name or steps present
Recognizable(b) == b.methodology # None \/ b.steps # None

\* orchestration status bodies: {"axoden": {"total_methodologies": n}} or {}
OrchestrationData == {None, Some(42)}

create_fallback_recommendation(problem, orchestration_data, fmt) ==
    LET total_methodologies == Get(orchestration_data, 0)
        rec == [methodology_name |-> "Systematic Problem Analysis",
                description      |-> <<"Apply systematic analysis from AxoDen's ",
                                       total_methodologies, " methodologies">>,
                confidence       |-> Num(FALLBACK_CONFIDENCE),
                steps            |-> <<"1. Define the problem scope and constraints",
                                       "2. Analyze root causes systematically",
                                       "3. Apply domain-specific best practices",
                                       "4. Iterate and validate solutions">>,
                reasoning        |-> <<"Based on '", problem,
                                       "' and AxoDen's methodology database">>,
                alternatives     |-> <<"Root Cause Analysis", "Design Thinking",
                                       "Test-Driven Development">>]
    IN  IF fmt = "claude" /\ format_for_claude_code_raises(rec)
        THEN Raised
        ELSE Returned(rec)

----------------------------------------------------------------------------
(* Configuration resolver and credential store: config.py *)

DEFAULT_BASE_URL == "https://api.axoden.com"

NoFile == [exists |-> FALSE, valid |-> FALSE,
           data |-> [base_url |-> None, agent_id |-> None, default_format |-> None]]

\* a resolver in which the persisted file wins over the environment
load_config_file_over_env(env, file) ==
    LET readable == file.exists /\ file.valid
        env_url == IF env.AXODEN_API_URL # None
                   THEN env.AXODEN_API_URL[1] ELSE DEFAULT_BASE_URL
    IN  [base_url       |-> IF readable THEN Get(file.data.base_url, env_url)
                            ELSE env_url,
         agent_id       |-> IF readable /\ file.data.agent_id # None
                            THEN file.data.agent_id ELSE env.AXODEN_AGENT_ID,
         default_format |-> IF readable THEN Get(file.data.default_format, "claude")
                            ELSE "claude",
         _api_key       |-> env.AXODEN_API_KEY]

\* AxoDenConfig._load_config: defaults, then the file, then the environment
load_config(env, file) ==
    LET readable == file.exists /\ file.valid
        base_url == IF readable THEN Get(file.data.base_url, DEFAULT_BASE_URL)
                    ELSE DEFAULT_BASE_URL
        agent_id == IF readable THEN file.data.agent_id ELSE None
        default_format == IF readable THEN Get(file.data.default_format, "claude")
                          ELSE "claude"
    IN  [base_url       |-> IF env.AXODEN_API_URL # None
                            THEN env.AXODEN_API_URL[1] ELSE base_url,
         agent_id       |-> IF env.AXODEN_AGENT_ID # None
                            THEN env.AXODEN_AGENT_ID ELSE agent_id,
         default_format |-> default_format,
         _api_key       |-> env.AXODEN_API_KEY]

\* a credential lookup that asks the secret store before the environment
api_key_ring_first(config, ring) ==
    IF ring.ok /\ Truthy(ring.password) THEN ring.password
    ELSE config._api_key

\* AxoDenConfig.api_key: the environment value, else the secret store
api_key(config, ring) ==
    IF Truthy(config._api_key) THEN config._api_key
    ELSE IF ring.ok THEN ring.password
    ELSE None

----------------------------------------------------------------------------
(* The client: client.py *)

\* uuid.uuid4().hex[:8] is drawn from 1..NumUuids; the identity built from it
\* is f"claude-code-{username}-{hostname}-{uuid}"
GeneratedIdTable == <<"claude-code-dev-box-0a1b2c3d", "claude-code-dev-box-4e5f6a7b",
                      "claude-code-dev-box-8c9d0e1f", "claude-code-dev-box-deadbeef",
                      "claude-code-dev-box-cafef00d">>
Uuids == 1..NumUuids

\* AxoDenClient._generate_agent_id
generate_agent_id(uuid) == GeneratedIdTable[uuid]

Problems == {"fix flaky tests"}

GET_AGENT == "GET /api/v1/agents/{agent_id}"
POST_REGISTER == "POST /api/v1/agents/register"
POST_ASSIGNMENT == "POST /api/v1/assignments/request?agent_id={agent_id}"
GET_STATUS == "GET /api/v1/orchestration/status"

Call(endpoint, agent_id) == [endpoint |-> endpoint, agent_id |-> agent_id]

NoError == [kind |-> "none", message |-> <<>>]
NoArgs == [problem |-> "", context |-> None, format |-> "claude", save |-> FALSE]
NoResponse == [kind |-> "none", status |-> 0, json |-> None]
HttpResponse(status, json) == [kind |-> "http", status |-> status, json |-> json]
TransportFailure == [kind |-> "exception", status |-> 0, json |-> None]

\* the --context argument: a text that json.loads accepts or rejects
ContextText(wellformed, value) == [wellformed |-> wellformed, value |-> value]

EmptyDict == [k \in {} |-> ""]

\* contexts a caller supplies: {}, a consistent one, an inconsistent one
SuppliedContexts ==
    {EmptyDict,
     [language |-> "python", framework |-> "django"],
     [language |-> "go", framework |-> "django"]}

ContextArgs ==
    {None, Some(ContextText(FALSE, EmptyDict))}
        \cup {Some(ContextText(TRUE, c)) : c \in SuppliedContexts}

\* the bodies the assignment endpoint answers with
ServiceBodies ==
    {b \in Bodies : /\ b.description = None
                    /\ b.reasoning = None
                    /\ b.alternatives = None
                    /\ b.steps \in {None, Some(<<"a", "b">>)}}

----------------------------------------------------------------------------
(* The state between two invocations *)

IdleCommand ==
    /\ pc = "idle"
    /\ args = NoArgs
    /\ client = None
    /\ project_context = None
    /\ request_data = None
    /\ response = NoResponse
    /\ recommendation = None
    /\ error = NoError
    /\ exit_code = None
    /\ calls = <<>>
    /\ saved = {}
    /\ probe_response = NoResponse
    /\ register_response = NoResponse
    /\ listdir_calls = 0

IdleDetector == files = {} /\ context = None
IdleParser == body = None /\ format = "claude" /\ parsed = None
IdleConstructor == explicit_api_key = None /\ explicit_base_url = None
IdleRoundTrip == record = None /\ roundtrip = None
IdleFormatter == recommended = None /\ narrative = None
IdleAnalyzer == filesystem = None /\ project_path = None /\ analysis = None
IdleLifetime == invocations = 0
IdleLibrary ==
    IdleConstructor /\ IdleRoundTrip /\ IdleFormatter /\ IdleAnalyzer /\ IdleLifetime

\* the machines the lifecycle is run on
Environs ==
    [AXODEN_API_KEY  : {None, Some("sk-env")},
     AXODEN_API_URL  : {None},
     AXODEN_AGENT_ID : {None, Some("agent-env")}]

Keyrings == {[ok |-> TRUE, password |-> None],
             [ok |-> TRUE, password |-> Some("sk-ring")],
             [ok |-> FALSE, password |-> None]}

ConfigFiles ==
    {NoFile,
     [exists |-> TRUE, valid |-> FALSE, data |-> NoFile.data],
     [exists |-> TRUE, valid |-> TRUE,
      data |-> [base_url |-> None, agent_id |-> Some("agent-file"),
                default_format |-> None]]}

Init ==
    /\ environ \in Environs
    /\ keyring \in Keyrings
    /\ configFile \in ConfigFiles
    /\ firstGenerated = None
    /\ IdleCommand
    /\ IdleDetector
    /\ IdleParser
    /\ IdleLibrary

----------------------------------------------------------------------------
(* `axoden recommend PROBLEM [--context JSON] [--format F] [--save]` *)

\* cli.recommend is entered with its arguments
cli_recommend ==
    /\ pc = "idle"
    /\ \E p \in Problems, c \in ContextArgs, f \in Formats, s \in BOOLEAN :
          args' = [problem |-> p, context |-> c, format |-> f, save |-> s]
    /\ pc' = "init"
    /\ UNCHANGED <<envVars, client, project_context, request_data, response,
                   recommendation, error, exit_code, calls, saved, detVars, parVars, libVars, regVars, listdir_calls>>

\* AxoDenClient.__init__ up to the session set-up, called with explicit
\* api_key_arg and base_url_arg (None from the CLI); when no key is resolvable
\* it raises AuthenticationError, leaving the calls log at callsOnFailure
AxoDenClient_construct(api_key_arg, base_url_arg, callsOnFailure) ==
    LET config == load_config(environ, configFile)
        key == IF Truthy(api_key_arg) THEN api_key_arg ELSE api_key(config, keyring)
        url == IF Truthy(base_url_arg) THEN base_url_arg[1] ELSE config.base_url
        generates == ~Truthy(config.agent_id)
    IN  \E u \in (IF generates THEN Uuids ELSE {1}) :
          LET id == IF generates THEN generate_agent_id(u) ELSE config.agent_id[1]
          IN  /\ firstGenerated' = IF generates /\ firstGenerated = None
                                   THEN Some(id) ELSE firstGenerated
              /\ IF ~Truthy(key)
                 THEN /\ error' = [kind |-> "AuthenticationError",
                                   message |-> <<"No API key found. Set AXODEN_API_KEY environment variable or pass api_key parameter">>]
                      /\ pc' = "raised"
                      /\ calls' = callsOnFailure
                      /\ UNCHANGED client
                 ELSE /\ client' = Some([api_key |-> key[1], base_url |-> url,
                                         agent_id |-> id])
                      /\ pc' = "probe"
                      /\ UNCHANGED <<error, calls>>

\* a constructor that probes for the agent before it checks the key
AxoDenClient_init_probe_first ==
    /\ pc = "init"
    /\ AxoDenClient_construct(None, None, Append(calls, Call(GET_AGENT, None)))
    /\ UNCHANGED <<environ, keyring, configFile, args, project_context,
                   request_data, response, recommendation, exit_code, saved,
                   detVars, parVars, libVars, regVars, listdir_calls>>

\* cli.py:58 client = AxoDenClient()
AxoDenClient_init ==
    /\ pc = "init"
    /\ AxoDenClient_construct(None, None, calls)
    /\ UNCHANGED <<environ, keyring, configFile, args, project_context,
                   request_data, response, recommendation, exit_code, saved,
                   detVars, parVars, libVars, regVars, listdir_calls>>

\* a probe whose transport exception is not caught, and that registers on
\* every answer other than 200
ensure_agent_registered_strict ==
    /\ pc = "probe"
    /\ calls' = Append(calls, Call(GET_AGENT, Some(client[1].agent_id)))
    /\ \E r \in {HttpResponse(st, None) : st \in {200, 404, 500}}
                  \cup {TransportFailure} :
          /\ probe_response' = r
          /\ IF r.kind = "exception"
             THEN /\ pc' = "raised"
                  /\ error' = [kind |-> "ConnectionError", message |-> <<>>]
             ELSE /\ pc' = IF r.status # 200 THEN "register" ELSE "constructed"
                  /\ UNCHANGED error
    /\ UNCHANGED <<envVars, args, client, project_context, request_data, response,
                   recommendation, exit_code, saved, detVars, parVars,
                   libVars, register_response, listdir_calls>>

\* AxoDenClient._ensure_agent_registered: the existence probe; only a 404
\* leads to registration, an exception is caught and printed
ensure_agent_registered ==
    /\ pc = "probe"
    /\ calls' = Append(calls, Call(GET_AGENT, Some(client[1].agent_id)))
    /\ \E r \in {HttpResponse(st, None) : st \in {200, 404, 500}}
                  \cup {TransportFailure} :
          /\ probe_response' = r
          /\ pc' = IF r.kind = "http" /\ r.status = 404 THEN "register"
                   ELSE "constructed"
    /\ UNCHANGED <<envVars, args, client, project_context, request_data, response,
                   recommendation, error, exit_code, saved, detVars, parVars,
                   libVars, register_response, listdir_calls>>

\* AxoDenClient._register_agent: a failure is printed, an exception is caught
\* by _ensure_agent_registered
register_agent ==
    /\ pc = "register"
    /\ calls' = Append(calls, Call(POST_REGISTER, Some(client[1].agent_id)))
    /\ \E r \in {HttpResponse(st, None) : st \in {200, 500}} \cup {TransportFailure} :
          /\ register_response' = r
          /\ pc' = "constructed"
    /\ UNCHANGED <<envVars, args, client, project_context, request_data, response,
                   recommendation, error, exit_code, saved, detVars, parVars,
                   libVars, probe_response, listdir_calls>>

\* cli.py:60-67 json.loads(context); on JSONDecodeError print and sys.exit(1).
\* The constructor has returned: its locals (the two responses) are gone.
cli_parse_context ==
    /\ pc = "constructed"
    /\ IF args.context = None
       THEN /\ project_context' = None
            /\ pc' = "recommend"
            /\ UNCHANGED <<error, exit_code>>
       ELSE IF args.context[1].wellformed
       THEN /\ project_context' = Some(args.context[1].value)
            /\ pc' = "recommend"
            /\ UNCHANGED <<error, exit_code>>
       ELSE /\ error' = [kind |-> "JSONDecodeError",
                         message |-> <<"Error: Invalid JSON in context parameter">>]
            /\ exit_code' = Some(1)
            /\ pc' = "exited"
            /\ UNCHANGED project_context
    /\ probe_response' = NoResponse
    /\ register_response' = NoResponse
    /\ UNCHANGED <<envVars, args, client, request_data, response, recommendation,
                   calls, saved, detVars, parVars, libVars, listdir_calls>>

\* what os.listdir(".") can make of the working directory: every context the
\* detector yields for a set of entries
DetectedContexts == {detect_project_context(fs) : fs \in SUBSET Entries}

\* Python truthiness of the context argument of client.recommend
ContextGiven(c) == c # None /\ DOMAIN c[1] # {}

\* client.py:112-123 the context is detected unless one was given, and the
\* request payload is built; a failing os.listdir propagates as OSError
recommend_build_request ==
    /\ pc = "recommend"
    /\ listdir_calls' = IF ContextGiven(project_context) THEN listdir_calls
                        ELSE listdir_calls + 1
    /\ \/ /\ \E c \in (IF ContextGiven(project_context)
                       THEN {project_context[1]} ELSE DetectedContexts) :
               request_data' = Some([problem_description |-> args.problem,
                                     project_context |-> c,
                                     constraints |-> [format |-> args.format,
                                                      agent_type |-> "claude_code"]])
          /\ pc' = "post"
          /\ UNCHANGED <<error, exit_code>>
       \/ /\ ~ContextGiven(project_context)
          /\ error' = [kind |-> "OSError", message |-> <<"listdir failed">>]
          /\ exit_code' = Some(1)
          /\ pc' = "exited"
          /\ UNCHANGED request_data
    /\ UNCHANGED <<envVars, args, client, project_context, response,
                   recommendation, calls, saved, detVars, parVars, libVars, regVars>>

AssignmentResponses ==
    {TransportFailure}
        \cup {HttpResponse(st, None) : st \in {200, 404, 500}}
        \cup {HttpResponse(200, Some(b)) : b \in ServiceBodies}

\* a primary request whose transport exception is not caught
recommend_post_assignment_uncaught ==
    /\ pc = "post"
    /\ calls' = Append(calls, Call(POST_ASSIGNMENT, Some(client[1].agent_id)))
    /\ \E r \in AssignmentResponses :
          /\ response' = r
          /\ LET result == IF r.kind = "http" /\ r.status = 200 /\ r.json # None
                           THEN parse_recommendation(r.json[1], args.format)
                           ELSE Raised
             IN  IF r.kind = "http" /\ r.status = 200 /\ ~result.raised
                 THEN /\ recommendation' = result.value
                      /\ request_data' = None
                      /\ pc' = "returned"
                      /\ UNCHANGED error
                 ELSE IF r.kind = "exception"
                 THEN /\ pc' = "raised"
                      /\ error' = [kind |-> "ConnectionError", message |-> <<>>]
                      /\ UNCHANGED <<recommendation, request_data>>
                 ELSE /\ pc' = "fallback"
                      /\ UNCHANGED <<recommendation, request_data, error>>
    /\ UNCHANGED <<envVars, args, client, project_context, exit_code,
                   saved, detVars, parVars, libVars, regVars, listdir_calls>>

\* client.py:125-135 the primary endpoint; a 200 is parsed and returned, any
\* exception (transport, response.json(), the parser) is caught and printed,
\* and every other outcome falls through to the fallback.  `response` keeps
\* the primary endpoint's answer.
recommend_post_assignment ==
    /\ pc = "post"
    /\ calls' = Append(calls, Call(POST_ASSIGNMENT, Some(client[1].agent_id)))
    /\ \E r \in AssignmentResponses :
          /\ response' = r
          /\ LET result == IF r.kind = "http" /\ r.status = 200 /\ r.json # None
                           THEN parse_recommendation(r.json[1], args.format)
                           ELSE Raised
             IN  IF r.kind = "http" /\ r.status = 200 /\ ~result.raised
                 THEN /\ recommendation' = result.value
                      /\ request_data' = None
                      /\ pc' = "returned"
                 ELSE /\ pc' = "fallback"
                      /\ UNCHANGED <<recommendation, request_data>>
    /\ UNCHANGED <<envVars, args, client, project_context, error, exit_code,
                   saved, detVars, parVars, libVars, regVars, listdir_calls>>

StatusResponses ==
    {TransportFailure}
        \cup {HttpResponse(st, None) : st \in {200, 503}}
        \cup {HttpResponse(200, Some(d)) : d \in OrchestrationData}

\* client.py:137-149 the orchestration status endpoint; a 200 yields the
\* synthetic recommendation, everything else MethodologyNotFoundError
recommend_fallback ==
    /\ pc = "fallback"
    /\ calls' = Append(calls, Call(GET_STATUS, None))
    /\ \E r \in StatusResponses :
          LET result == IF r.kind = "http" /\ r.status = 200 /\ r.json # None
                        THEN create_fallback_recommendation(args.problem, r.json[1],
                                                            args.format)
                        ELSE Raised
          IN  IF r.kind = "http" /\ r.status = 200 /\ ~result.raised
              THEN /\ recommendation' = result.value
                   /\ pc' = "returned"
                   /\ UNCHANGED error
              ELSE /\ error' = [kind |-> "MethodologyNotFoundError",
                                message |-> <<"Could not get methodology recommendation for: ",
                                              args.problem>>]
                   /\ pc' = "raised"
                   /\ UNCHANGED recommendation
    /\ request_data' = None
    /\ UNCHANGED <<envVars, args, client, project_context, response, exit_code,
                   saved, detVars, parVars, libVars, regVars, listdir_calls>>

\* the file `--save` writes: axoden_recommendation_<timestamp>.<extension>,
\* holding the rendering of the recommendation
SavedFile(fmt, rec) == [extension |-> IF fmt = "claude" THEN "md" ELSE "json",
                        content |-> rec]

\* an output step that also runs, and writes the file, after a failure
cli_output_always_saves ==
    /\ pc \in {"returned", "raised"}
    /\ saved' = IF args.save
                THEN {SavedFile(args.format, recommendation)}
                ELSE saved
    /\ exit_code' = Some(IF pc = "returned" THEN 0 ELSE 1)
    /\ pc' = "exited"
    /\ UNCHANGED <<envVars, args, client, project_context, request_data, response,
                   recommendation, error, calls, detVars, parVars, libVars, regVars, listdir_calls>>

\* cli.py:73-97 the recommendation is printed and, with --save, written
cli_output ==
    /\ pc = "returned"
    /\ saved' = IF args.save
                THEN {SavedFile(args.format, recommendation)}
                ELSE saved
    /\ exit_code' = Some(0)
    /\ pc' = "exited"
    /\ UNCHANGED <<envVars, args, client, project_context, request_data, response,
                   recommendation, error, calls, detVars, parVars, libVars, regVars, listdir_calls>>

\* cli.py:99-105 AuthenticationError and AxoDenError are printed; exit 1
cli_handle_error ==
    /\ pc = "raised"
    /\ exit_code' = Some(1)
    /\ pc' = "exited"
    /\ UNCHANGED <<envVars, args, client, project_context, request_data, response,
                   recommendation, error, calls, saved, detVars, parVars, libVars, regVars, listdir_calls>>

\* the process ends; the next invocation starts from a fresh process
process_exit ==
    /\ pc = "exited"
    /\ pc' = "idle"
    /\ args' = NoArgs
    /\ client' = None
    /\ project_context' = None
    /\ request_data' = None
    /\ response' = NoResponse
    /\ recommendation' = None
    /\ error' = NoError
    /\ exit_code' = None
    /\ calls' = <<>>
    /\ saved' = {}
    /\ probe_response' = NoResponse
    /\ register_response' = NoResponse
    /\ listdir_calls' = 0
    /\ UNCHANGED <<envVars, detVars, parVars, libVars>>

Next ==
    \/ cli_recommend
    \/ AxoDenClient_init
    \/ ensure_agent_registered
    \/ register_agent
    \/ cli_parse_context
    \/ recommend_build_request
    \/ recommend_post_assignment
    \/ recommend_fallback
    \/ cli_output
    \/ cli_handle_error
    \/ process_exit

Spec == Init /\ [][Next]_vars

----------------------------------------------------------------------------
(* The detector applied to every directory listing *)

DetectInit ==
    /\ files \in SUBSET Entries
    /\ context = None
    /\ environ = [AXODEN_API_KEY |-> None, AXODEN_API_URL |-> None,
                  AXODEN_AGENT_ID |-> None]
    /\ keyring = [ok |-> TRUE, password |-> None]
    /\ configFile = NoFile
    /\ firstGenerated = None
    /\ IdleCommand
    /\ IdleParser
    /\ IdleLibrary

\* context = self._detect_project_context() with os.listdir(".") = files
Detect ==
    /\ context = None
    /\ context' = Some(detect_project_context(files))
    /\ UNCHANGED <<files, envVars, cmdVars, parVars, libVars>>

DetectNext == Detect

DetectSpec == DetectInit /\ [][DetectNext]_vars

----------------------------------------------------------------------------
(* The parser applied to every response body and format *)

ParseInit ==
    /\ body \in {Some(b) : b \in Bodies}
    /\ format \in Formats
    /\ parsed = None
    /\ environ = [AXODEN_API_KEY |-> None, AXODEN_API_URL |-> None,
                  AXODEN_AGENT_ID |-> None]
    /\ keyring = [ok |-> TRUE, password |-> None]
    /\ configFile = NoFile
    /\ firstGenerated = None
    /\ IdleCommand
    /\ IdleDetector
    /\ IdleLibrary

\* self._parse_recommendation(response.json(), format)
Parse ==
    /\ parsed = None
    /\ parsed' = Some(parse_recommendation(body[1], format))
    /\ UNCHANGED <<body, format, envVars, cmdVars, detVars, libVars>>

ParseNext == Parse

ParseSpec == ParseInit /\ [][ParseNext]_vars

----------------------------------------------------------------------------
(* The constructor called with explicit arguments, on every machine *)

\* every source of a setting is absent or holds a non-empty value
AllEnvirons ==
    [AXODEN_API_KEY  : {None, Some("sk-env")},
     AXODEN_API_URL  : {None, Some("https://env.example")},
     AXODEN_AGENT_ID : {None, Some("agent-env")}]

AllConfigFiles ==
    {NoFile, [exists |-> TRUE, valid |-> FALSE, data |-> NoFile.data]}
        \cup {[exists |-> TRUE, valid |-> TRUE,
               data |-> [base_url |-> u, agent_id |-> a, default_format |-> None]] :
                 u \in {None, Some("https://file.example")},
                 a \in {None, Some("agent-file")}}

ConstructInit ==
    /\ explicit_api_key \in {None, Some("sk-arg")}
    /\ explicit_base_url \in {None, Some("https://arg.example")}
    /\ environ \in AllEnvirons
    /\ keyring \in Keyrings
    /\ configFile \in AllConfigFiles
    /\ firstGenerated = None
    /\ pc = "init"
    /\ args = NoArgs
    /\ client = None
    /\ project_context = None
    /\ request_data = None
    /\ response = NoResponse
    /\ recommendation = None
    /\ error = NoError
    /\ exit_code = None
    /\ calls = <<>>
    /\ saved = {}
    /\ probe_response = NoResponse
    /\ register_response = NoResponse
    /\ listdir_calls = 0
    /\ IdleDetector
    /\ IdleParser
    /\ IdleRoundTrip
    /\ IdleFormatter
    /\ IdleAnalyzer
    /\ IdleLifetime

\* AxoDenClient(api_key=explicit_api_key, base_url=explicit_base_url)
AxoDenClient_new ==
    /\ pc = "init"
    /\ AxoDenClient_construct(explicit_api_key, explicit_base_url, calls)
    /\ UNCHANGED <<environ, keyring, configFile, args, project_context,
                   request_data, response, recommendation, exit_code, saved,
                   detVars, parVars, libVars, regVars, listdir_calls>>

ConstructNext == AxoDenClient_new

ConstructSpec == ConstructInit /\ [][ConstructNext]_vars

----------------------------------------------------------------------------
(* Structured records: models.py to_json, and the round trip through the parser *)

Times == 1..NumTimes

\* datetime.isoformat(): the instant as text
IsoTable == <<"2026-01-01T00:00:01", "2026-01-01T00:00:02", "2026-01-01T00:00:03",
              "2026-01-01T00:00:04">>
isoformat(t) == IsoTable[t]

\* MethodologyRecommendation.to_json; `timestamp` is the dataclass field that
\* default_factory=datetime.now sets when the recommendation is constructed
to_json(rec, timestamp) ==
    [methodology  |-> Some(rec.methodology_name),
     description  |-> Some(rec.description),
     confidence   |-> Some(rec.confidence),
     steps        |-> Some(rec.steps),
     reasoning    |-> Some(rec.reasoning),
     alternatives |-> Some(rec.alternatives),
     timestamp    |-> Some(isoformat(timestamp))]

\* recommendations with a confidence in [0,1]
Recommendations ==
    [methodology_name : {"X", "Unknown"},
     description      : {"", "d"},
     confidence       : {Num(0), Num(50), Num(90)},
     steps            : SeqsUpTo({"a", "b"}, MaxSteps),
     reasoning        : {"", "r"},
     alternatives     : SeqsUpTo({"Y"}, MaxSteps)]

\* the well-formed structured records: what to_json produces
StructuredRecords == {to_json(rec, t) : rec \in Recommendations, t \in Times}

RoundTripInit ==
    /\ record \in {Some(x) : x \in StructuredRecords}
    /\ roundtrip = None
    /\ format \in Formats
    /\ body = None
    /\ parsed = None
    /\ environ = [AXODEN_API_KEY |-> None, AXODEN_API_URL |-> None,
                  AXODEN_AGENT_ID |-> None]
    /\ keyring = [ok |-> TRUE, password |-> None]
    /\ configFile = NoFile
    /\ firstGenerated = None
    /\ IdleCommand
    /\ IdleDetector
    /\ IdleConstructor
    /\ IdleFormatter
    /\ IdleAnalyzer
    /\ IdleLifetime

\* self._parse_recommendation(x, format).to_json(), the recommendation being
\* constructed at the instant `now`
RoundTrip ==
    /\ roundtrip = None
    /\ \E now \in Times :
          LET result == parse_recommendation(record[1], format)
          IN  /\ ~result.raised
              /\ roundtrip' = Some(to_json(result.value[1], now))
    /\ UNCHANGED <<record, envVars, cmdVars, detVars, parVars,
                   explicit_api_key, explicit_base_url, invocations,
                   recommended, narrative,
                   anaVars>>

RoundTripNext == RoundTrip

RoundTripSpec == RoundTripInit /\ [][RoundTripNext]_vars

----------------------------------------------------------------------------
(* The narrative rendering: models.py format_for_claude_code *)

\* one piece of the output text: the section it belongs to, its number
\* (the step number, or the confidence in percent) and its text
Piece(section, index, text) == [section |-> section, index |-> index, text |-> text]

CLOSING == "To apply this methodology, explain to Claude Code what you want to implement using these principles."

\* a rendering that numbers the steps from 0
format_for_claude_code_zero_based(r) ==
    IF format_for_claude_code_raises(r) THEN [raised |-> TRUE, value |-> <<>>]
    ELSE [raised |-> FALSE,
          value  |->
            <<Piece("title", 0, r.methodology_name),
              Piece("confidence", r.confidence.pct, "%"),
              Piece("description", 0, r.description)>>
            \o (IF r.steps # <<>>
                THEN <<Piece("steps_header", 0, "Implementation Steps:")>>
                     \o [i \in 1..Len(r.steps) |-> Piece("step", i - 1, r.steps[i])]
                ELSE <<>>)
            \o (IF r.reasoning # ""
                THEN <<Piece("reasoning", 0, r.reasoning)>> ELSE <<>>)
            \o (IF r.alternatives # <<>>
                THEN <<Piece("alternatives_header", 0, "Alternative Approaches:")>>
                     \o [i \in 1..Len(r.alternatives) |->
                           Piece("alternative", 0, r.alternatives[i])]
                ELSE <<>>)
            \o <<Piece("closing", 0, CLOSING)>>]

\* MethodologyRecommendation.format_for_claude_code; f"{confidence:.0%}"
\* raises TypeError when confidence is None
format_for_claude_code(r) ==
    IF format_for_claude_code_raises(r) THEN [raised |-> TRUE, value |-> <<>>]
    ELSE [raised |-> FALSE,
          value  |->
            <<Piece("title", 0, r.methodology_name),
              Piece("confidence", r.confidence.pct, "%"),
              Piece("description", 0, r.description)>>
            \o (IF r.steps # <<>>
                THEN <<Piece("steps_header", 0, "Implementation Steps:")>>
                     \o [i \in 1..Len(r.steps) |-> Piece("step", i, r.steps[i])]
                ELSE <<>>)
            \o (IF r.reasoning # ""
                THEN <<Piece("reasoning", 0, r.reasoning)>> ELSE <<>>)
            \o (IF r.alternatives # <<>>
                THEN <<Piece("alternatives_header", 0, "Alternative Approaches:")>>
                     \o [i \in 1..Len(r.alternatives) |->
                           Piece("alternative", 0, r.alternatives[i])]
                ELSE <<>>)
            \o <<Piece("closing", 0, CLOSING)>>]

\* the recommendations rendered: those of the data model, and the same with
\* an undefined confidence
Renderable ==
    Recommendations \cup {[r EXCEPT !.confidence = Null] : r \in Recommendations}

FormatInit ==
    /\ recommended \in {Some(r) : r \in Renderable}
    /\ narrative = None
    /\ environ = [AXODEN_API_KEY |-> None, AXODEN_API_URL |-> None,
                  AXODEN_AGENT_ID |-> None]
    /\ keyring = [ok |-> TRUE, password |-> None]
    /\ configFile = NoFile
    /\ firstGenerated = None
    /\ IdleCommand
    /\ IdleDetector
    /\ IdleParser
    /\ IdleConstructor
    /\ IdleRoundTrip
    /\ IdleAnalyzer
    /\ IdleLifetime

\* recommendation.format_for_claude_code()
Format ==
    /\ narrative = None
    /\ narrative' = Some(format_for_claude_code(recommended[1]))
    /\ UNCHANGED <<recommended, envVars, cmdVars, detVars, parVars,
                   explicit_api_key, explicit_base_url, invocations,
                   record, roundtrip,
                   anaVars>>

FormatNext == Format

FormatSpec == FormatInit /\ [][FormatNext]_vars

----------------------------------------------------------------------------
(* Project analysis: client.py analyze_project, cli.py analyze *)

ANALYSIS_CONFIDENCE == 80

\* the working directory and one other directory
CWD == "."
Dirs == {CWD, "proj"}
AnalyzeEntries == {"package.json", "requirements.txt", "go.mod", "manage.py"}

\* os.listdir(path)
listdir(fs, path) == fs[path]

AnalyzeInit ==
    /\ filesystem \in {Some(fs) : fs \in [Dirs -> SUBSET AnalyzeEntries]}
    /\ project_path \in {Some(d) : d \in Dirs}
    /\ analysis = None
    /\ environ = [AXODEN_API_KEY |-> None, AXODEN_API_URL |-> None,
                  AXODEN_AGENT_ID |-> None]
    /\ keyring = [ok |-> TRUE, password |-> None]
    /\ configFile = NoFile
    /\ firstGenerated = None
    /\ IdleCommand
    /\ IdleDetector
    /\ IdleParser
    /\ IdleConstructor
    /\ IdleRoundTrip
    /\ IdleFormatter
    /\ IdleLifetime

\* client.analyze_project(project_path): the context comes from
\* self._detect_project_context(), which lists "."; project_path is not read
analyze_project ==
    /\ analysis = None
    /\ analysis' = Some([project_context |->
                            detect_project_context(listdir(filesystem[1], CWD)),
                         recommended_methodologies |->
                            <<"Code Review Process", "Continuous Integration",
                              "Documentation-Driven Development">>,
                         confidence |-> ANALYSIS_CONFIDENCE])
    /\ UNCHANGED <<filesystem, project_path, envVars, cmdVars, detVars, parVars,
                   explicit_api_key, explicit_base_url, invocations,
                   record, roundtrip,
                   recommended, narrative>>

AnalyzeNext == analyze_project

AnalyzeSpec == AnalyzeInit /\ [][AnalyzeNext]_vars

----------------------------------------------------------------------------
(* One client, several recommend calls: AxoDenClient() then client.recommend *)

LifetimeInit ==
    /\ environ \in Environs
    /\ keyring = [ok |-> TRUE, password |-> None]
    /\ configFile = NoFile
    /\ firstGenerated = None
    /\ pc = "init"
    /\ args = NoArgs
    /\ client = None
    /\ project_context = None
    /\ request_data = None
    /\ response = NoResponse
    /\ recommendation = None
    /\ error = NoError
    /\ exit_code = None
    /\ calls = <<>>
    /\ saved = {}
    /\ probe_response = NoResponse
    /\ register_response = NoResponse
    /\ listdir_calls = 0
    /\ IdleDetector
    /\ IdleParser
    /\ IdleLibrary

\* client.recommend(problem, context, format) is called on the constructed
\* client; a caller that caught MethodologyNotFoundError may call again
client_recommend ==
    /\ pc \in {"constructed", "returned", "raised"}
    /\ client # None
    /\ invocations < MaxCalls
    /\ invocations' = invocations + 1
    /\ \E p \in Problems, f \in Formats :
          args' = [problem |-> p, context |-> None, format |-> f, save |-> FALSE]
    /\ project_context' \in {None} \cup {Some(c) : c \in SuppliedContexts}
    /\ response' = NoResponse
    /\ recommendation' = None
    /\ error' = NoError
    /\ probe_response' = NoResponse
    /\ register_response' = NoResponse
    /\ pc' = "recommend"
    /\ UNCHANGED <<envVars, client, request_data, exit_code, calls, saved,
                   listdir_calls, detVars, parVars, explicit_api_key,
                   explicit_base_url, record, roundtrip, recommended, narrative,
                   anaVars>>

LifetimeNext ==
    \/ AxoDenClient_init
    \/ ensure_agent_registered
    \/ register_agent
    \/ client_recommend
    \/ recommend_build_request
    \/ recommend_post_assignment
    \/ recommend_fallback

LifetimeSpec == LifetimeInit /\ [][LifetimeNext]_vars

----------------------------------------------------------------------------
(* Claims *)

Finished == pc \in {"returned", "raised", "exited"}

\* C1: for every set of top-level entry names the detector returns the result
\* of the detection table with first-matching-branch-wins precedence:
\* package.json gives javascript (nextjs by next.config.js, else vue by
\* vue.config.js); else requirements.txt or setup.py gives python (django by
\* manage.py, else flask by app.py or application.py); else Cargo.toml gives
\* rust; else go.mod gives go; else unknown/unknown/general.
C1_DetectionTable ==
    context # None =>
      LET c == context[1]
          js == "package.json" \in files
          py == "requirements.txt" \in files \/ "setup.py" \in files
          rs == "Cargo.toml" \in files
          go == "go.mod" \in files
      IN  /\ c.project_type = "general"
          /\ js => /\ c.language = "javascript"
                   /\ ("next.config.js" \in files => c.framework = "nextjs")
                   /\ ("next.config.js" \notin files /\ "vue.config.js" \in files
                         => c.framework = "vue")
                   /\ ("next.config.js" \notin files /\ "vue.config.js" \notin files
                         => c.framework = "unknown")
          /\ ~js /\ py =>
                   /\ c.language = "python"
                   /\ ("manage.py" \in files => c.framework = "django")
                   /\ ("manage.py" \notin files
                         /\ ("app.py" \in files \/ "application.py" \in files)
                         => c.framework = "flask")
                   /\ ("manage.py" \notin files /\ "app.py" \notin files
                         /\ "application.py" \notin files
                         => c.framework = "unknown")
          /\ ~js /\ ~py /\ rs => c.language = "rust" /\ c.framework = "unknown"
          /\ ~js /\ ~py /\ ~rs /\ go => c.language = "go" /\ c.framework = "unknown"
          /\ ~js /\ ~py /\ ~rs /\ ~go => c = default_context

\* a directory holding both package.json and go.mod was detected as javascript
C1_Witness ==
    /\ context # None
    /\ {"package.json", "go.mod"} \subseteq files
    /\ context[1].language = "javascript"

\* C2: when the primary endpoint answers 200 with a body that has no
\* recognizable methodology payload (such as {}), recommend fails with a
\* methodology-not-found error and returns no recommendation.
C2_EmptySuccessRaises ==
    (/\ Finished
     /\ response.kind = "http" /\ response.status = 200
     /\ response.json # None
     /\ ~Recognizable(response.json[1]))
        => /\ error.kind = "MethodologyNotFoundError"
           /\ recommendation = None

\* the decimal text of a status code, as an f-string would print it
StatusText(st) ==
    CASE st = 200 -> "200" [] st = 404 -> "404" [] st = 500 -> "500"
      [] st = 503 -> "503" [] OTHER -> "?"

\* C3: when the primary endpoint answers with a non-200 status, recommend
\* raises a methodology-not-found error whose message carries that status
\* code, whatever any other endpoint answers; it never returns a
\* recommendation.
C3_Non200RaisesWithStatus ==
    (/\ Finished
     /\ response.kind = "http" /\ response.status # 200)
        => /\ error.kind = "MethodologyNotFoundError"
           /\ StatusText(response.status) \in Range(error.message)
           /\ recommendation = None

NoCredential ==
    /\ environ.AXODEN_API_KEY \in {None, Some("")}
    /\ ~keyring.ok \/ keyring.password \in {None, Some("")}

\* C5: if no credential is resolvable when a client is constructed,
\* construction raises an authentication error and no network call has been
\* issued before the error is raised.
C5_AuthErrorBeforeNetwork ==
    /\ (NoCredential /\ pc \notin {"idle", "init"})
          => error.kind = "AuthenticationError"
    /\ error.kind = "AuthenticationError" => calls = <<>> /\ client = None

\* construction has raised the authentication error
C5_Witness ==
    /\ NoCredential
    /\ pc = "raised"
    /\ error.kind = "AuthenticationError"

\* C6: in the recommend command, when --context is not valid JSON the
\* malformed-input error is surfaced and the command exits before any
\* network call of that invocation has been attempted.
C6_MalformedBeforeNetwork ==
    error.kind = "JSONDecodeError" => calls = <<>>

\* C7: with --save, a recommendation file is written only after a
\* recommendation was obtained; on every path where construction or
\* recommend fails no file is written.
C7_SaveOnlyAfterRecommendation ==
    /\ saved # {} => /\ args.save
                     /\ recommendation # None
                     /\ error = NoError
                     /\ \A f \in saved : f.content = recommendation
    /\ error # NoError => saved = {}
    /\ exit_code = Some(1) => saved = {}

\* a file was written by an invocation run with --save
C7_Witness ==
    /\ args.save
    /\ pc = "exited"
    /\ saved # {}

\* C8: once an identity has been generated in one invocation, every later
\* invocation (the environment is never changed and nothing is saved here)
\* presents the same agent_id to the remote service.
C8_StableIdentity ==
    \A i \in DOMAIN calls :
        (firstGenerated # None /\ calls[i].agent_id # None)
            => calls[i].agent_id = firstGenerated

\* the last call of this invocation went to the primary endpoint
FromPrimary == calls # <<>> /\ calls[Len(calls)].endpoint = POST_ASSIGNMENT

\* C9: every recommendation returned by recommend has a defined confidence
\* within [0,1]; when the upstream response carries no usable confidence the
\* value is 0.5, never undefined/null.
C9_ConfidenceDefined ==
    recommendation # None =>
      /\ recommendation[1].confidence.kind = "num"
      /\ recommendation[1].confidence.pct \in 0..100
      /\ (FromPrimary /\ response.json[1].confidence \in {None, Some(Null)})
            => recommendation[1].confidence = Num(50)

\* framework is consistent with language in a context dict
Consistent(c) ==
    LET language == DictGet(c, "language", "unknown")
        framework == DictGet(c, "framework", "unknown")
    IN  /\ framework # "unknown" => language # "unknown"
        /\ framework \in {"nextjs", "vue"} => language = "javascript"
        /\ framework \in {"django", "flask"} => language = "python"

\* C10: in every project context placed in a request payload, auto-detected
\* or supplied by the caller, framework is consistent with language.
C10_FrameworkConsistent ==
    request_data # None => Consistent(request_data[1].project_context)

\* the first present credential source in the order explicit value,
\* environment variable, secret store; a failing store counts as absent
FirstCredential ==
    IF explicit_api_key # None THEN explicit_api_key
    ELSE IF environ.AXODEN_API_KEY # None THEN environ.AXODEN_API_KEY
    ELSE IF keyring.ok /\ keyring.password # None THEN keyring.password
    ELSE None

\* C11: the credential a client uses is resolved in the order explicit value,
\* environment variable, OS secret store, else absent: for every combination
\* of present/absent sources the first present one is used, a failing secret
\* store counts as absent, and with none present construction fails.
C11_CredentialOrder ==
    pc # "init" =>
      IF FirstCredential = None
      THEN client = None /\ error.kind = "AuthenticationError"
      ELSE client # None /\ error = NoError
             /\ client[1].api_key = FirstCredential[1]

\* with no explicit value and no environment variable the secret store's
\* credential was used although all three could have differed
C11_Witness ==
    /\ explicit_api_key = None
    /\ environ.AXODEN_API_KEY = None
    /\ keyring.ok
    /\ client # None
    /\ client[1].api_key = "sk-ring"

ReadableFile == configFile.exists /\ configFile.valid

\* the base_url the precedence explicit > environment > file > default gives
FirstBaseUrl ==
    IF explicit_base_url # None THEN explicit_base_url[1]
    ELSE IF environ.AXODEN_API_URL # None THEN environ.AXODEN_API_URL[1]
    ELSE IF ReadableFile /\ configFile.data.base_url # None
         THEN configFile.data.base_url[1]
    ELSE "https://api.axoden.com"

\* C12: the effective base_url and agent_id follow the precedence explicit
\* constructor argument > environment variable > persisted config file >
\* built-in default for every combination of present/absent sources (the
\* constructor takes no agent_id argument, and the default identity is a
\* generated one); a missing or unreadable config file is not an error and
\* leaves the defaults in force.
C12_SettingsPrecedence ==
    /\ error.kind \in {"none", "AuthenticationError"}
    /\ client # None =>
         /\ client[1].base_url = FirstBaseUrl
         /\ client[1].agent_id =
              IF environ.AXODEN_AGENT_ID # None THEN environ.AXODEN_AGENT_ID[1]
              ELSE IF ReadableFile /\ configFile.data.agent_id # None
                   THEN configFile.data.agent_id[1]
              ELSE client[1].agent_id
         /\ (environ.AXODEN_AGENT_ID = None
               /\ ~(ReadableFile /\ configFile.data.agent_id # None))
              => client[1].agent_id \in Range(GeneratedIdTable)

\* the environment's base_url and agent_id won over the file's
C12_Witness ==
    /\ client # None
    /\ explicit_base_url = None
    /\ ReadableFile
    /\ configFile.data.base_url # None
    /\ configFile.data.agent_id # None
    /\ client[1].base_url = "https://env.example"
    /\ client[1].agent_id = "agent-env"

Endpoints(log) == {log[i].endpoint : i \in DOMAIN log}

\* C13: agent registration is non-critical: whatever the existence probe or
\* the registration call does (any status, a transport exception), client
\* construction completes without error and the command goes on towards its
\* recommend call; registration is sent exactly when the probe answers 404.
C13_RegistrationNonCritical ==
    /\ pc \in {"probe", "register", "constructed"} =>
          error = NoError /\ client # None
    /\ pc = "register" =>
          /\ probe_response.kind = "http" /\ probe_response.status = 404
          /\ POST_REGISTER \notin Endpoints(calls)
    /\ pc = "constructed" =>
          /\ GET_AGENT \in Endpoints(calls)
          /\ POST_REGISTER \in Endpoints(calls)
               <=> (probe_response.kind = "http" /\ probe_response.status = 404)
          /\ ENABLED cli_parse_context
    /\ error.kind \notin {"ConnectionError", "HTTPError"}

\* construction completed although the probe answered 404 and the registration
\* call raised
C13_Witness ==
    /\ pc = "constructed"
    /\ probe_response.kind = "http" /\ probe_response.status = 404
    /\ register_response = TransportFailure
    /\ error = NoError

\* C14: structured round trip: for every well-formed structured record x,
\* parsing x into a recommendation and converting it back with to_json yields
\* a record equal to x in every field.
C14_RoundTrip ==
    roundtrip # None => roundtrip[1] = record[1]

\* the position of a section in the fixed order of the narrative
SectionRank(section) ==
    CASE section = "title" -> 1
      [] section = "confidence" -> 2
      [] section = "description" -> 3
      [] section \in {"steps_header", "step"} -> 4
      [] section = "reasoning" -> 5
      [] section \in {"alternatives_header", "alternative"} -> 6
      [] section = "closing" -> 7

PiecesOf(out, section) == SelectSeq(out, LAMBDA e : e.section = section)

\* C15: the narrative rendering of a recommendation (one whose confidence is
\* a number; with an undefined confidence the rendering raises) contains the
\* methodology name and the confidence as a percentage, lists the steps
\* numbered from 1 in their original order, contains the reasoning section
\* only when reasoning is non-empty and the alternatives section only when
\* alternatives is non-empty, in the fixed order title, confidence,
\* description, steps, reasoning, alternatives, closing line.
C15_NarrativeSections ==
    narrative # None =>
      LET r == recommended[1]
          out == narrative[1].value
      IN  /\ narrative[1].raised <=> r.confidence.kind = "null"
          /\ ~narrative[1].raised =>
               /\ \A i, j \in DOMAIN out :
                     i < j => SectionRank(out[i].section) <= SectionRank(out[j].section)
               /\ PiecesOf(out, "title") = <<Piece("title", 0, r.methodology_name)>>
               /\ PiecesOf(out, "confidence")
                     = <<Piece("confidence", r.confidence.pct, "%")>>
               /\ PiecesOf(out, "description") = <<Piece("description", 0, r.description)>>
               /\ PiecesOf(out, "step")
                     = [k \in 1..Len(r.steps) |-> Piece("step", k, r.steps[k])]
               /\ Len(PiecesOf(out, "steps_header")) = IF r.steps = <<>> THEN 0 ELSE 1
               /\ PiecesOf(out, "reasoning")
                     = IF r.reasoning = "" THEN <<>>
                       ELSE <<Piece("reasoning", 0, r.reasoning)>>
               /\ PiecesOf(out, "alternative")
                     = [k \in 1..Len(r.alternatives) |->
                          Piece("alternative", 0, r.alternatives[k])]
               /\ Len(PiecesOf(out, "alternatives_header"))
                     = IF r.alternatives = <<>> THEN 0 ELSE 1
               /\ Len(PiecesOf(out, "closing")) = 1

\* two steps were rendered while reasoning and alternatives, both empty, were
\* left out
C15_Witness ==
    /\ narrative # None
    /\ ~narrative[1].raised
    /\ recommended[1].steps = <<"b", "a">>
    /\ recommended[1].reasoning = ""
    /\ recommended[1].alternatives = <<>>
    /\ Len(narrative[1].value) = 7

\* C16: analyzing a project at path P reports the context derived from the
\* entries of P, not from any other directory.
C16_AnalyzesGivenPath ==
    analysis # None =>
      analysis[1].project_context
        = detect_project_context(listdir(filesystem[1], project_path[1]))

\* C17: recommend invokes the project context detector only when the caller
\* supplied no context; a context the caller supplied is placed in the
\* request payload unchanged and the directory is not listed.
C17_DetectorOnlyWithoutContext ==
    request_data # None =>
      /\ project_context = None => listdir_calls = 1
      /\ project_context # None =>
           /\ request_data[1].project_context = project_context[1]
           /\ listdir_calls = 0

EndpointAt(i) == calls[i].endpoint

Count(endpoint) == Cardinality({i \in DOMAIN calls : EndpointAt(i) = endpoint})

\* the primary request produced no result: an exception (transport,
\* response.json(), the parser) or a status other than 200
PrimaryFailed(r) ==
    \/ r.kind = "exception"
    \/ r.kind = "http" /\ r.status # 200
    \/ r.kind = "http" /\ r.status = 200 /\ r.json = None
    \/ /\ r.kind = "http" /\ r.status = 200 /\ r.json # None
       /\ parse_recommendation(r.json[1], args.format).raised

\* C18: over a client lifetime the outbound calls are ordered: the existence
\* probe comes first, a registration call only directly after it, both before
\* every assignment request; the orchestration status is queried only
\* directly after an assignment request (so at most once per recommend call)
\* and only when that request produced no result; a recommend call whose
\* directory listing succeeds ends with a recommendation or with
\* MethodologyNotFoundError, never another exception.
C18_CallOrder ==
    /\ \A i \in DOMAIN calls :
          /\ EndpointAt(i) = GET_AGENT => i = 1
          /\ EndpointAt(i) = POST_REGISTER => i = 2 /\ EndpointAt(1) = GET_AGENT
          /\ EndpointAt(i) = POST_ASSIGNMENT =>
                /\ i > 1
                /\ EndpointAt(1) = GET_AGENT
                /\ \A j \in DOMAIN calls :
                      EndpointAt(j) \in {GET_AGENT, POST_REGISTER} => j < i
          /\ EndpointAt(i) = GET_STATUS => i > 1 /\ EndpointAt(i - 1) = POST_ASSIGNMENT
    /\ Count(POST_ASSIGNMENT) <= invocations
    /\ pc = "fallback" => PrimaryFailed(response) /\ ENABLED recommend_fallback
    /\ (pc \in {"returned", "raised"} /\ invocations > 0
            /\ EndpointAt(Len(calls)) = GET_STATUS) => PrimaryFailed(response)
    /\ pc = "post" => ENABLED recommend_post_assignment
    /\ invocations > 0 =>
          /\ error.kind \in {"none", "MethodologyNotFoundError", "OSError"}
          /\ error.kind = "OSError" => pc = "exited" /\ Count(POST_ASSIGNMENT) < invocations
          /\ pc = "returned" <=> recommendation # None
          /\ pc = "returned" => error = NoError
          /\ pc = "raised" <=> error.kind = "MethodologyNotFoundError"
          /\ pc = "raised" => EndpointAt(Len(calls)) = GET_STATUS

\* the second recommend call of one client went to the fallback after its
\* primary request failed, the first having been answered by the primary
C18_Witness ==
    /\ invocations = 2
    /\ pc = "raised"
    /\ Len(calls) >= 5
    /\ EndpointAt(2) = POST_REGISTER
    /\ EndpointAt(3) = POST_ASSIGNMENT
    /\ EndpointAt(4) = POST_ASSIGNMENT
    /\ EndpointAt(5) = GET_STATUS

====
